---- MODULE Spec2Model ----
(***************************************************************************)
(* Linear spectral unmixing: the two per-pixel solvers (LeastSquares and   *)
(* FCLSU), the reference-matrix builder (FPRefMatrix) and the quality      *)
(* metrics (utils/metrics.py), as state machines over exact arithmetic.    *)
(*                                                                         *)
(* Numbers.  A number is a pair <<n, d>> with d >= 0.  With d > 0 it is    *)
(* the rational n/d in lowest terms; d = 0 holds the three non-finite      *)
(* float values: <<1,0>> is +inf, <<-1,0>> is -inf and <<0,0>> is NaN.     *)
(* Division by zero therefore behaves as numpy's float division does       *)
(* (x/0 = +-inf, 0/0 = NaN) instead of being undefined.  Rounding of       *)
(* finite values is not modelled: finite arithmetic is exact.              *)
(***************************************************************************)
EXTENDS Integers, Sequences, FiniteSets, TLC

\* ------------------------------------------------------------------ bounds
MaxPixels == 2      \* an image has at most this many pixels
Grid == 2           \* true abundances are the multiples of 1/Grid
MaxLevel == 1       \* raw (unmixed) intensities are 1..MaxLevel
MaxSample == 3      \* raw spectra are sampled at 400, 450, ... 400 + 50 * MaxSample nm
MaxIntensity == 2   \* raw emission intensities are 1..MaxIntensity
MaxElems == 3       \* a metric's argument has at most this many elements
MaxValue == 1       \* and its elements are 0..MaxValue
MaxSide == 2        \* a patterned image has 1..MaxSide pixels along each spatial axis

\* ----------------------------------------------------------------- numbers
\* The value of F at v, and of G at u and v, with u and v evaluated once
Bind(v, F(_)) == CHOOSE r \in { F(w) : w \in { v } } : TRUE
Bind2(u, v, G(_, _)) == CHOOSE r \in { G(x, y) : x \in { u }, y \in { v } } : TRUE

Abs(x) == IF x < 0 THEN -x ELSE x
Sgn(x) == IF x < 0 THEN -1 ELSE IF x > 0 THEN 1 ELSE 0

RECURSIVE Gcd(_, _)
Gcd(a, b) == IF b = 0 THEN a ELSE Gcd(b, a % b)

Rat(n, d) == IF d = 0 THEN <<Sgn(n), 0>>
             ELSE Bind(Gcd(Abs(n), d), LAMBDA g : <<n \div g, d \div g>>)

NaN == <<0, 0>>
PInf == <<1, 0>>
NInf == <<-1, 0>>
Zero == <<0, 1>>
One == <<1, 1>>
Num(k) == <<k, 1>>
Half == <<1, 2>>

IsNaN(a) == a = NaN
IsFinite(a) == a[2] > 0

Neg(a) == Bind(a, LAMBDA x : <<-x[1], x[2]>>)

AddValues(a, b) ==
    IF a[2] = 0 \/ b[2] = 0
    THEN IF IsNaN(a) \/ IsNaN(b) THEN NaN
         ELSE IF a[2] = 0 /\ b[2] = 0 THEN (IF a = b THEN a ELSE NaN)
         ELSE IF a[2] = 0 THEN a ELSE b
    ELSE Bind(Gcd(a[2], b[2]), LAMBDA g :
           Bind2(a[1] * (b[2] \div g) + b[1] * (a[2] \div g), (a[2] \div g) * b[2], Rat))
Add(a, b) == Bind2(a, b, AddValues)

Sub(a, b) == Add(a, Neg(b))

MulValues(a, b) ==
    IF a[2] = 0 \/ b[2] = 0 THEN <<Sgn(a[1]) * Sgn(b[1]), 0>>
    ELSE Bind2(Gcd(Abs(a[1]), b[2]), Gcd(Abs(b[1]), a[2]), LAMBDA g1, g2 :
           Bind2((a[1] \div g1) * (b[1] \div g2), (a[2] \div g2) * (b[2] \div g1), Rat))
Mul(a, b) == Bind2(a, b, MulValues)

InvValue(a) == IF a[1] > 0 THEN <<a[2], a[1]>>
               ELSE IF a[1] < 0 THEN <<-a[2], -a[1]>>
               ELSE IF a[2] > 0 THEN PInf ELSE NaN
Inv(a) == Bind(a, InvValue)

Div(a, b) == Mul(a, Inv(b))

LtValues(a, b) == ~IsNaN(a) /\ ~IsNaN(b) /\ a # b /\ Sub(a, b)[1] < 0
Lt(a, b) == Bind2(a, b, LtValues)
LeqValues(a, b) == ~IsNaN(a) /\ ~IsNaN(b) /\ (a = b \/ Sub(a, b)[1] < 0)
Leq(a, b) == Bind2(a, b, LeqValues)

AbsN(a) == Bind(a, LAMBDA x : <<Abs(x[1]), x[2]>>)

\* Sum, minimum and maximum of a sequence of numbers (numpy's min and max
\* return NaN as soon as one entry is NaN).
RECURSIVE SumTo(_, _)
SumTo(s, n) == IF n = 0 THEN Zero ELSE Add(SumTo(s, n - 1), s[n])
SumSeq(s) == Bind(s, LAMBDA v : SumTo(v, Len(v)))

Min2(a, b) == Bind2(a, b, LAMBDA x, y :
                IF IsNaN(x) \/ IsNaN(y) THEN NaN ELSE IF LeqValues(x, y) THEN x ELSE y)
Max2(a, b) == Bind2(a, b, LAMBDA x, y :
                IF IsNaN(x) \/ IsNaN(y) THEN NaN ELSE IF LeqValues(x, y) THEN y ELSE x)

RECURSIVE MinTo(_, _)
MinTo(s, n) == IF n = 1 THEN s[1] ELSE Min2(MinTo(s, n - 1), s[n])
MinSeq(s) == Bind(s, LAMBDA v : MinTo(v, Len(v)))

RECURSIVE MaxTo(_, _)
MaxTo(s, n) == IF n = 1 THEN s[1] ELSE Max2(MaxTo(s, n - 1), s[n])
MaxSeq(s) == Bind(s, LAMBDA v : MaxTo(v, Len(v)))

RECURSIVE Flatten(_)
Flatten(ss) == IF ss = <<>> THEN <<>> ELSE ss[1] \o Flatten(Tail(ss))

Dot(u, v) == Bind2(u, v, LAMBDA x, y : SumSeq([j \in 1..Len(x) |-> Mul(x[j], y[j])]))

\* ---------------------------------------------------------------- matrices
\* A matrix is the sequence of its rows; a vector is a sequence of numbers.
Rows(M) == Len(M)
Cols(M) == Len(M[1])
Col(M, j) == [b \in 1..Len(M) |-> M[b][j]]
Transpose(M) == [j \in 1..Cols(M) |-> Col(M, j)]
MatVec(M, v) == [b \in 1..Len(M) |-> Dot(M[b], v)]
Gram(M) == [j \in 1..Cols(M) |-> [k \in 1..Cols(M) |-> Dot(Col(M, j), Col(M, k))]]
Det2(M) == Sub(Mul(M[1][1], M[2][2]), Mul(M[1][2], M[2][1]))
VecFinite(v) == \A j \in 1..Len(v) : IsFinite(v[j])
MatFinite(M) == \A b \in 1..Len(M) : VecFinite(M[b])
ZeroVec(p) == [j \in 1..p |-> Zero]

\* ------------------------------------------------------------------ images
\* An image is [n, dims, px]: n bands, the spatial dimensions, and px, which
\* gives every spatial index (a tuple of 0-based coordinates) its band vector.
RECURSIVE Prod(_)
Prod(d) == IF d = <<>> THEN 1 ELSE d[1] * Prod(Tail(d))

\* The position of spatial index t in C (row-major) order, 0-based, and the
\* spatial index at position k.
RECURSIVE Ravel(_, _)
Ravel(t, d) == IF Len(d) = 0 THEN 0
               ELSE t[1] * Prod(Tail(d)) + Ravel(Tail(t), Tail(d))

Unravel(k, d) == [j \in 1..Len(d) |-> (k \div Prod(SubSeq(d, j + 1, Len(d)))) % d[j]]

Indices(d) == { Unravel(k, d) : k \in 0..(Prod(d) - 1) }

NumPixels(img) == Prod(img.dims)

\* img.reshape(img.shape[0], -1): column i (1-based) of the (n, N) matrix
unroll_image(img) ==
    [n |-> img.n,
     cols |-> [i \in 1..NumPixels(img) |-> img.px[Unravel(i - 1, img.dims)]]]

\* (a variant that lays the pixels out in column-major order)
roll_image_column_major(XT, p, dims) ==
    [n |-> p, dims |-> dims,
     px |-> [t \in Indices(dims) |->
               XT[Ravel([j \in 1..Len(t) |-> t[Len(t) + 1 - j]],
                        [j \in 1..Len(dims) |-> dims[Len(dims) + 1 - j]]) + 1]]]

\* X.reshape((p, *spatial_dims)) of the (p, N) matrix whose column i is XT[i]
roll_image(XT, p, dims) ==
    [n |-> p, dims |-> dims, px |-> [t \in Indices(dims) |-> XT[Ravel(t, dims) + 1]]]

ImageValues(img) == Flatten([i \in 1..NumPixels(img) |-> img.px[Unravel(i - 1, img.dims)]])

\* LeastSquares._normalize: (img - img.min()) / (img.max() - img.min()), the
\* minimum and maximum taken over the whole image.
NormalizeWith(img, lo, hi) ==
    [img EXCEPT !.px = [t \in DOMAIN img.px |->
        [b \in 1..img.n |-> Div(Sub(img.px[t][b], lo), Sub(hi, lo))]]]

\* (a variant that divides by the maximum without removing the minimum)
normalize_by_max(img) == NormalizeWith(img, Zero, MaxSeq(ImageValues(img)))

\* img.min() and img.max(): the extreme of the pixels' extremes
ImageMin(img) == MinSeq([i \in 1..NumPixels(img) |-> MinSeq(img.px[Unravel(i - 1, img.dims)])])
ImageMax(img) == MaxSeq([i \in 1..NumPixels(img) |-> MaxSeq(img.px[Unravel(i - 1, img.dims)])])

normalize(img) == NormalizeWith(img, ImageMin(img), ImageMax(img))

\* -------------------------------------------------------------------- state
VARIABLES
    solver,        \* which class the caller uses: "LeastSquares" or "FCLSU"
    img,           \* the caller's mixed image (mixed_img)
    ref,           \* the caller's reference matrix (ref_matrix)
    spatial_dims,  \* self.spatial_dims
    Y,             \* self.Y, the unrolled image: [n, cols]
    E,             \* self.E
    X,             \* solve's local X, one row per pixel
    idx,           \* how many pixels the loop of solve has processed
    status,        \* the "status" the QP library reported for each processed pixel
    rnd,           \* the rounding of the QP library's converged answers in this run
    pc,            \* "new", "ready", "loop", "done" or "failed"
    err,           \* the exception that ended the run, "none" if none
    out,           \* the abundance map solve returned
    storage,       \* the memory each array name refers to, "none" before it is bound
    prev           \* the image and the map of the caller's previous run, if any

solverVars ==
    <<solver, img, ref, spatial_dims, Y, E, X, idx, status, rnd, pc, err, out, storage, prev>>

VARIABLES
    fpbase,        \* the emission spectra the provider returns, one per name of fp_names
    w_bins,        \* self.w_bins: the requested bins, a list of (low, high) pairs
    n_fp,          \* self.n = len(fp_names)
    p_bins,        \* self.p = len(w_bins)
    sbins,         \* self.sbins: the sorted bin edges
    fp_em_list,    \* self.fp_em_list: one spectrum per fluorophore, at the current stage
    codes,         \* the bin groupby_bins assigned to each raw sample (0: none)
    rpc,           \* "new", "constructed", "fetched", "binned", "filled", "normalized", "done"
    matrix         \* the reference matrix create returned

refVars == <<fpbase, w_bins, n_fp, p_bins, sbins, fp_em_list, codes, rpc, matrix>>

VARIABLES
    gt,            \* the ground-truth array a metric is called with
    pred,          \* the prediction it is called with
    pred0,         \* the prediction before the caller rescaled it
    call,          \* the metric called last, "none" before the first call
    res            \* what that call returned or raised: [err, val]

metricVars == <<gt, pred, pred0, call, res>>

vars == <<solverVars, refVars, metricVars>>

\* ------------------------------------------------------- library: lstsq
\* scipy.linalg.lstsq(a, b) as LeastSquares.solve calls it (check_finite left
\* True): both arguments are checked for non-finite entries first, then the row
\* counts are compared, then the minimum-norm least-squares solution is returned.
\* For one column that is (e.y)/(e.e); for two columns of full rank it is the
\* solution of the normal equations; for a rank-one matrix the pseudo-inverse is
\* E^T / ||E||_F^2; for the zero matrix it is zero.
MinNormOf(Q, c) ==
    IF Len(c) = 1
    THEN IF Q[1][1] = Zero THEN <<Zero>> ELSE <<Div(c[1], Q[1][1])>>
    ELSE IF Det2(Q) # Zero
         THEN << Div(Sub(Mul(c[1], Q[2][2]), Mul(Q[1][2], c[2])), Det2(Q)),
                 Div(Sub(Mul(Q[1][1], c[2]), Mul(Q[2][1], c[1])), Det2(Q)) >>
         ELSE IF Add(Q[1][1], Q[2][2]) = Zero THEN ZeroVec(2)
              ELSE [j \in 1..2 |-> Div(c[j], Add(Q[1][1], Q[2][2]))]

MinNormSolution(a, b) ==
    CHOOSE x \in { MinNormOf(Q, c) : Q \in { Gram(a) }, c \in { MatVec(Transpose(a), b) } } : TRUE

lstsq(a, b) ==
    IF ~MatFinite(a) \/ ~VecFinite(b)
    THEN [err |-> "ValueError: array must not contain infs or NaNs", x |-> <<>>]
    ELSE IF Rows(a) # Len(b)
    THEN [err |-> "ValueError: Shape mismatch", x |-> <<>>]
    ELSE [err |-> "none", x |-> MinNormSolution(a, b)]

\* ---------------------------------------------------- library: cvxopt qp
\* FCLSU.solve builds these once (lines 86-92).
QuadTerm(M) == Gram(M)                                                  \* Q = E.T * E
IneqMatrix(p) == [j \in 1..p |-> [k \in 1..p |-> IF j = k THEN Num(-1) ELSE Zero]]  \* G = -I
IneqRhs(p) == ZeroVec(p)                                                \* h = 0
EqMatrix(p) == << [k \in 1..p |-> One] >>                               \* A = ones((1, p))
EqRhs == << One >>                                                      \* b = 1
\* (a variant that drops the sign of the linear term)
LinearTermUnsigned(M, y) == [j \in 1..Cols(M) |-> Dot(y, Col(M, j))]
\* r = -y.T * E, rebuilt for every pixel (line 97)
LinearTerm(M, y) == [j \in 1..Cols(M) |-> Neg(Dot(y, Col(M, j)))]

Feasible(x, G, h, A, b) ==
    /\ \A j \in 1..Len(G) : Leq(Dot(G[j], x), h[j])
    /\ \A j \in 1..Len(A) : Dot(A[j], x) = b[j]

\* The optimality (KKT) condition of  minimize (1/2) x'Qx + r'x  subject to
\* Gx <= h, Ax = b  for G = -I and A = 1': with g = Qx + r there is a multiplier
\* nu with g + nu >= 0 and (g + nu)_j x_j = 0, that is, g is minimal on the
\* support of x.
Optimal(x, Q, r) ==
    \A g \in { [j \in 1..Len(x) |-> Add(Dot(Q[j], x), r[j])] } :
        \A j \in 1..Len(x) : Lt(Zero, x[j]) => \A k \in 1..Len(x) : Leq(g[j], g[k])

\* Where the minimiser the library converges to can be (p <= 2): a vertex of the
\* simplex or the stationary point of the objective on the line x1 + x2 = 1;
\* when the objective is constant on that line every feasible point is a
\* minimiser and an interior-point method converges to the centre.
Candidates(Q, r) ==
    IF Len(r) = 1 THEN { <<One>> }
    ELSE UNION { IF den = Zero THEN { <<Half, Half>> }
                 ELSE { <<One, Zero>>, <<Zero, One>> }
                      \cup { <<t, Sub(One, t)>> :
                             t \in { Div(Add(Sub(Q[2][2], Q[1][2]), Sub(r[2], r[1])), den) } } :
                 den \in { Add(Sub(Q[1][1], Add(Q[1][2], Q[2][1])), Q[2][2]) } }

Singular(Q) == IF Len(Q) = 1 THEN Q[1][1] = Zero ELSE Det2(Q) = Zero

\* What a stalled run of the library can hand back as its last iterate.
LastIterates(p) == { [j \in 1..p |-> v] : v \in { Rat(-1, 2), One } }

\* cvxopt.solvers.qp(Q, r, G, h, A, b): the set of {status, x} it can return.
\* With status "optimal" x is a minimiser, exact up to the library's feasibility
\* tolerance (rho, added to the first entry).  With status "unknown" (iteration
\* limit reached: possible when Q is singular) x is the last iterate, which need
\* be neither feasible nor optimal.
qp(Q, r, G, h, A, b, rho) ==
    { [status |-> "optimal", x |-> [x EXCEPT ![1] = Add(x[1], rho)]] :
        x \in { c \in Candidates(Q, r) : Feasible(c, G, h, A, b) /\ Optimal(c, Q, r) } }
    \cup (IF Singular(Q)
          THEN { [status |-> "unknown", x |-> x] : x \in LastIterates(Len(r)) }
          ELSE {})

\* feastol of cvxopt's default options: 1e-7
Roundings == { <<-1, 10000000>>, <<1, 10000000>> }

\* ------------------------------------------------------------ solver inputs
\* 3 bands, 2 endmembers, full rank
E0 == << <<One, Zero>>, <<Zero, One>>, <<Half, Half>> >>
\* 3 bands, 1 endmember
E1 == << <<One>>, <<Half>>, <<Zero>> >>
\* 2 bands, 2 identical endmembers: E.T * E is singular
Edup == << <<One, One>>, <<Half, Half>> >>
RefMatrices == { E0, E1, Edup }

\* Abundance vectors that are nonnegative and sum to 1, on the grid
Abundances(p) ==
    IF p = 1 THEN { <<One>> }
    ELSE { <<Rat(k, Grid), Rat(Grid - k, Grid)>> : k \in 0..Grid }

\* Pixels that are exact mixtures E.a, the pixel [0.3, 0.7, 0.5], and raw
\* pixels lying outside every mixture
MixedPixels(n) ==
    UNION { { MatVec(M, a) : a \in Abundances(Cols(M)) } : M \in { M \in RefMatrices : Rows(M) = n } }
RawPixels(n) == { [b \in 1..n |-> IF b = 1 THEN Num(v) ELSE Zero] : v \in 1..MaxLevel }
Pixels(n) ==
    MixedPixels(n) \cup RawPixels(n)
    \cup (IF n = 3 THEN { <<Rat(3, 10), Rat(7, 10), Half>> } ELSE {})

\* 2 (Y, X) or 3 (Z, Y, X) spatial dimensions, zero-sized ones included
Shapes == { d \in [1..2 -> 0..MaxPixels] \cup [1..3 -> 0..MaxPixels] : Prod(d) <= MaxPixels }
Images ==
    UNION { { [n |-> n, dims |-> d, px |-> f] : f \in [Indices(d) -> Pixels(n)] } :
            n \in 2..3, d \in Shapes }

NoImage == [n |-> 0, dims |-> <<>>, px |-> <<>>]
NoMatrix == [n |-> 0, cols |-> <<>>]
NoRun == [img |-> NoImage, out |-> NoImage]

\* Which memory the caller's arrays (mixed_img, ref_matrix), the solver's fields
\* (Y, E), solve's local X and the returned map (out) refer to.  The caller's
\* arrays are C-contiguous, so reshape gives a view of the same memory.
Unbound == [mixed_img |-> "none", ref_matrix |-> "none", Y |-> "none", E |-> "none",
            X |-> "none", out |-> "none"]
CallerArrays == [Unbound EXCEPT !.mixed_img = "caller_img", !.ref_matrix = "caller_ref"]
\* (a variant in which the returned map is laid over the unrolled image)
result_storage_of_image(st) == st.Y
\* X.T and its reshape are views of the array np.zeros allocated for X
result_storage(st) == st.X

\* The components a run does not use stay as they are
RefIdle ==
    /\ fpbase = <<>> /\ w_bins = <<>> /\ n_fp = 0 /\ p_bins = 0 /\ sbins = <<>>
    /\ fp_em_list = <<>> /\ codes = <<>> /\ rpc = "idle" /\ matrix = <<>>

MetricsIdle ==
    /\ gt = [shape |-> <<>>, data |-> <<Zero>>] /\ pred = [shape |-> <<>>, data |-> <<Zero>>] /\ pred0 = [shape |-> <<>>, data |-> <<Zero>>]
    /\ call = "idle" /\ res = [err |-> "none", val |-> Zero]

SolverIdle ==
    /\ solver = "none" /\ img = NoImage /\ ref = <<>> /\ rnd = Zero
    /\ spatial_dims = <<>> /\ Y = NoMatrix /\ E = <<>> /\ X = <<>> /\ idx = 0
    /\ status = <<>> /\ pc = "idle" /\ err = "none" /\ out = NoImage
    /\ storage = Unbound /\ prev = NoRun

SolverStart(kind, roundings, images, refs) ==
    /\ solver = kind
    /\ img \in images
    /\ ref \in refs
    /\ rnd \in roundings
    /\ spatial_dims = <<>>
    /\ Y = NoMatrix
    /\ E = <<>>
    /\ X = <<>>
    /\ idx = 0
    /\ status = <<>>
    /\ pc = "new"
    /\ err = "none"
    /\ out = NoImage
    /\ storage = CallerArrays
    /\ prev = NoRun
    /\ RefIdle /\ MetricsIdle

SolverInit(kind, roundings) == SolverStart(kind, roundings, Images, RefMatrices)

\* ----------------------------------------------------------- solver actions
Raise(e) ==
    /\ pc' = "failed"
    /\ err' = e

\* (a variant that assigns the solution to every row of X)
store_solution_in_every_row(Xs, i, x) == [k \in 1..Len(Xs) |-> x]
\* X[i, :] = np.array(sol).squeeze(), i counted from 1
store_solution(Xs, i, x) == [Xs EXCEPT ![i] = x]

\* FCLSU.__init__ (lines 14-16)
FCLSU_init ==
    /\ solver = "FCLSU" /\ pc = "new"
    /\ spatial_dims' = img.dims
    /\ Y' = unroll_image(img)
    /\ E' = ref
    /\ storage' = [storage EXCEPT !.Y = storage.mixed_img, !.E = storage.ref_matrix]
    /\ pc' = "ready"
    /\ UNCHANGED <<solver, img, ref, X, idx, status, rnd, err, out, prev>>
    /\ UNCHANGED <<refVars, metricVars>>

\* LeastSquares.__init__ (lines 12-15): img.min() of an image without pixels
\* raises ValueError (zero-size array to reduction operation)
LeastSquares_init ==
    /\ solver = "LeastSquares" /\ pc = "new"
    /\ spatial_dims' = img.dims
    /\ IF NumPixels(img) = 0
       THEN /\ Raise("ValueError: zero-size array to reduction operation")
            /\ UNCHANGED <<Y, E, storage>>
       ELSE /\ Y' = unroll_image(normalize(img))
            /\ E' = ref
            /\ storage' = [storage EXCEPT !.Y = "normalized", !.E = storage.ref_matrix]
            /\ pc' = "ready"
            /\ UNCHANGED err
    /\ UNCHANGED <<solver, img, ref, X, idx, status, rnd, out, prev>>
    /\ UNCHANGED <<refVars, metricVars>>

\* FCLSU.solve up to the loop (lines 77-94)
FCLSU_solve_begin ==
    /\ solver = "FCLSU" /\ pc = "ready"
    /\ IF Y.n # Rows(E)
       THEN /\ Raise("AssertionError: Y.shape[0] == E.shape[0]")
            /\ UNCHANGED <<X, storage>>
       ELSE /\ X' = [i \in 1..Len(Y.cols) |-> ZeroVec(Cols(E))]
            /\ storage' = [storage EXCEPT !.X = "zeros"]
            /\ pc' = "loop"
            /\ UNCHANGED err
    /\ UNCHANGED <<solver, img, ref, spatial_dims, Y, E, idx, status, rnd, out, prev>>
    /\ UNCHANGED <<refVars, metricVars>>

\* LeastSquares.solve up to the loop (lines 48-51)
LeastSquares_solve_begin ==
    /\ solver = "LeastSquares" /\ pc = "ready"
    /\ X' = [i \in 1..Len(Y.cols) |-> ZeroVec(Cols(E))]
    /\ storage' = [storage EXCEPT !.X = "zeros"]
    /\ pc' = "loop"
    /\ UNCHANGED <<solver, img, ref, spatial_dims, Y, E, idx, status, rnd, err, out, prev>>
    /\ UNCHANGED <<refVars, metricVars>>

\* One pass of the loop of FCLSU.solve (lines 95-99): only sol["x"] is read
FCLSU_solve_pixel ==
    /\ solver = "FCLSU" /\ pc = "loop" /\ idx < Len(Y.cols)
    /\ \E p \in { Cols(E) }, Q \in { QuadTerm(E) }, r \in { LinearTerm(E, Y.cols[idx + 1]) } :
         \E sol \in qp(Q, r, IneqMatrix(p), IneqRhs(p), EqMatrix(p), EqRhs, rnd) :
            /\ X' = store_solution(X, idx + 1, sol.x)
            /\ status' = Append(status, sol.status)
    /\ idx' = idx + 1
    /\ UNCHANGED <<solver, img, ref, spatial_dims, Y, E, rnd, pc, err, out, storage, prev>>
    /\ UNCHANGED <<refVars, metricVars>>

\* One pass of the loop of LeastSquares.solve (lines 52-54)
LeastSquares_solve_pixel ==
    /\ solver = "LeastSquares" /\ pc = "loop" /\ idx < Len(Y.cols)
    /\ LET sol == lstsq(E, Y.cols[idx + 1])
       IN IF sol.err # "none"
          THEN /\ Raise(sol.err)
               /\ UNCHANGED <<X, idx>>
          ELSE /\ X' = store_solution(X, idx + 1, sol.x)
               /\ idx' = idx + 1
               /\ UNCHANGED <<pc, err>>
    /\ UNCHANGED <<solver, img, ref, spatial_dims, Y, E, status, rnd, out, storage, prev>>
    /\ UNCHANGED <<refVars, metricVars>>

\* The end of both solve methods: X.T, then _roll_image(X, (p, *spatial_dims))
solve_return ==
    /\ pc = "loop" /\ idx = Len(Y.cols)
    /\ out' = roll_image(X, Cols(E), spatial_dims)
    /\ storage' = [storage EXCEPT !.out = result_storage(storage)]
    /\ pc' = "done"
    /\ UNCHANGED <<solver, img, ref, spatial_dims, Y, E, X, idx, status, rnd, err, prev>>
    /\ UNCHANGED <<refVars, metricVars>>

\* The caller later writes a value into the map solve returned.  Every array
\* laid over the same memory changes with it: X where the map is a view of X,
\* the unrolled image and the caller's image where it is laid over those.
Written == Num(7)
Shares(a, b) == storage[a] # "none" /\ storage[a] = storage[b]
caller_writes_result ==
    /\ pc = "done"
    /\ \E s \in Indices(out.dims) :
         /\ out' = [out EXCEPT !.px[s][1] = Written]
         /\ X' = IF Shares("X", "out") THEN [X EXCEPT ![Ravel(s, out.dims) + 1][1] = Written] ELSE X
         /\ Y' = IF Shares("Y", "out")
                 THEN [Y EXCEPT !.cols[Ravel(s, out.dims) + 1][1] = Written] ELSE Y
         /\ img' = IF Shares("mixed_img", "out") THEN [img EXCEPT !.px[s][1] = Written] ELSE img
         /\ ref' = IF Shares("ref_matrix", "out") THEN [ref EXCEPT ![1][1] = Written] ELSE ref
         /\ E' = IF Shares("E", "out") THEN [E EXCEPT ![1][1] = Written] ELSE E
    /\ pc' = "written"
    /\ UNCHANGED <<solver, spatial_dims, idx, status, rnd, err, storage, prev>>
    /\ UNCHANGED <<refVars, metricVars>>

\* The caller runs the same solver class with the same E on another image of
\* the same shape, keeping the image and the map of the run just finished
next_run(images) ==
    /\ pc = "done" /\ prev = NoRun
    /\ prev' = [img |-> img, out |-> out]
    /\ img' \in { i \in images : i.n = img.n /\ i.dims = img.dims }
    /\ spatial_dims' = <<>> /\ Y' = NoMatrix /\ E' = <<>> /\ X' = <<>> /\ idx' = 0
    /\ status' = <<>> /\ pc' = "new" /\ out' = NoImage /\ storage' = CallerArrays
    /\ UNCHANGED <<solver, ref, rnd, err>>
    /\ UNCHANGED <<refVars, metricVars>>

FCLSUInit == SolverInit("FCLSU", Roundings)
FCLSUNext == FCLSU_init \/ FCLSU_solve_begin \/ FCLSU_solve_pixel \/ solve_return
SpecFCLSU == FCLSUInit /\ [][FCLSUNext]_vars

LSInit == SolverInit("LeastSquares", { Zero })
LSNext == LeastSquares_init \/ LeastSquares_solve_begin \/ LeastSquares_solve_pixel \/ solve_return
SpecLS == LSInit /\ [][LSNext]_vars

\* Both solvers on images of every 2-D and 3-D shape up to MaxSide per axis whose
\* neighbouring pixels differ: the pixel at row-major position i is entry
\* (i + k) mod 4 of Palette.
Palette == << <<Rat(3, 10), Rat(7, 10), Half>>, <<One, Zero, Half>>,
              <<Half, Half, Half>>, <<Zero, One, Half>> >>
LayoutShapes == [1..2 -> 1..MaxSide] \cup [1..3 -> 1..MaxSide]
PatternImage(d, k) ==
    [n |-> 3, dims |-> d,
     px |-> [t \in Indices(d) |-> Palette[((Ravel(t, d) + k) % Len(Palette)) + 1]]]
LayoutImages == { PatternImage(d, k) : d \in LayoutShapes, k \in 0..(Len(Palette) - 1) }
LayoutRefs == { E0, E1 }

LayoutInit ==
    \/ SolverStart("FCLSU", Roundings, LayoutImages, LayoutRefs)
    \/ SolverStart("LeastSquares", { Zero }, LayoutImages, LayoutRefs)
LayoutNext == FCLSUNext \/ LSNext
SpecLayout == LayoutInit /\ [][LayoutNext]_vars

\* Two runs in a row on images of two pixels drawn from Palette
PairShapes == { <<1, 2>>, <<2, 1, 1>> }
PairImages ==
    UNION { { [n |-> 3, dims |-> d, px |-> f] :
              f \in [Indices(d) -> { Palette[k] : k \in 1..Len(Palette) }] } : d \in PairShapes }
PairInit ==
    \/ SolverStart("FCLSU", Roundings, PairImages, LayoutRefs)
    \/ SolverStart("LeastSquares", { Zero }, PairImages, LayoutRefs)
PairNext == LayoutNext \/ next_run(PairImages)
SpecPair == PairInit /\ [][PairNext]_vars

\* The same runs, followed by a write of the caller to the returned map
FrameNext == LayoutNext \/ caller_writes_result
SpecFrame == LayoutInit /\ [][FrameNext]_vars

\* ------------------------------------------------------------ solver claims
FullRank(M) == ~Singular(Gram(M))
Within(a, b, tol) == Leq(AbsN(Sub(a, b)), tol)
Tol6 == Rat(1, 1000000)
Tol4 == Rat(1, 10000)

\* C1: every pixel column of the map FCLSU.solve returns is >= -1e-6 in every
\* entry and sums to 1 within 1e-6, whatever status the QP library reported.
C1_ConstraintsHold ==
    (solver = "FCLSU" /\ pc = "done") =>
        \A t \in Indices(out.dims) :
            /\ \A j \in 1..out.n : Leq(Neg(Tol6), out.px[t][j])
            /\ Within(SumSeq(out.px[t]), One, Tol6)

\* C2: a pixel whose QP solve did not converge aborts the run (the program keeps
\* no validity mask); its result is never stored with the loop going on.
C2_FailureSurfaced ==
    \A i \in 1..Len(status) : status[i] # "optimal" => pc = "failed"

\* C3: when the band count of the image differs from the row count of the
\* reference matrix, the run never returns a map, and the error that ends it is
\* a shape-mismatch error.
ShapeMismatchErrors ==
    { "AssertionError: Y.shape[0] == E.shape[0]", "ValueError: Shape mismatch" }
C3_ShapeMismatchFails ==
    img.n # Rows(ref) =>
        /\ pc # "done"
        /\ pc = "failed" => err \in ShapeMismatchErrors

ClosedFormOf(M, a, y) == MatVec(Gram(M), a) = MatVec(Transpose(M), y)

\* C5 as stated: for a full-rank E the vector LeastSquares.solve returns for a
\* pixel is the closed-form solution for that pixel's vector of the image as
\* the caller passed it.
C5_ClosedFormOfCallerImage ==
    (solver = "LeastSquares" /\ pc = "done" /\ FullRank(ref)) =>
        \A t \in Indices(img.dims) : ClosedFormOf(ref, out.px[t], img.px[t])

\* C5 amended: it is the closed-form solution for that pixel's vector of the
\* image after the constructor's min-max normalisation over the whole image,
\* y' = (y - min Y) / (max Y - min Y).
C5_ClosedFormOfNormalizedImage ==
    (solver = "LeastSquares" /\ pc = "done" /\ FullRank(ref)) =>
        LET lo == MinSeq(ImageValues(img))
            hi == MaxSeq(ImageValues(img))
        IN \A t \in Indices(img.dims) :
             ClosedFormOf(ref, out.px[t],
                          [b \in 1..img.n |-> Div(Sub(img.px[t][b], lo), Sub(hi, lo))])

C5_Witness ==
    /\ solver = "LeastSquares" /\ pc = "done" /\ ref = E0
    /\ img.dims = <<2, 1>>
    /\ img.px[<<0, 0>>] = <<Rat(3, 10), Rat(7, 10), Half>>
    /\ img.px[<<1, 0>>] = <<Half, Half, Half>>
    /\ out.px[<<0, 0>>] = <<Zero, One>>
    /\ out.px[<<1, 0>>] = <<Half, Half>>
    /\ ~ClosedFormOf(ref, out.px[<<0, 0>>], img.px[<<0, 0>>])

\* What the loop of solve can compute from the pixel vector y
PixelSolutions(kind, M, y, rho) ==
    IF kind = "FCLSU"
    THEN { sol.x : sol \in qp(QuadTerm(M), LinearTerm(M, y), IneqMatrix(Cols(M)),
                              IneqRhs(Cols(M)), EqMatrix(Cols(M)), EqRhs, rho) }
    ELSE { lstsq(M, y).x }

\* The image the constructor unrolls: normalised by LeastSquares, as passed by FCLSU
Fitted(kind, image) == IF kind = "LeastSquares" THEN normalize(image) ELSE image

\* C11: for both solvers and 2 or 3 spatial dimensions the returned map has
\* shape (p, *spatial dims of the image), and at every spatial index s its
\* vector is the solution the loop computed from the pixel vector at the same
\* index s of the unrolled image: no pixel or endmember is permuted or mixed.
C11_LayoutPreserved ==
    pc = "done" =>
        /\ out.n = Cols(ref)
        /\ out.dims = img.dims
        /\ DOMAIN out.px = Indices(img.dims)
        /\ \A y \in { Fitted(solver, img) } :
             \A s \in Indices(img.dims) :
                /\ Len(out.px[s]) = Cols(ref)
                /\ out.px[s] \in PixelSolutions(solver, ref, y.px[s], rnd)

C11_Witness ==
    /\ pc = "done" /\ solver = "LeastSquares" /\ ref = E0
    /\ img = PatternImage(<<1, 2, 2>>, 0)
    /\ out.dims = <<1, 2, 2>>
    /\ out.px[<<0, 0, 1>>] = <<One, Zero>>
    /\ out.px[<<0, 1, 0>>] = <<Half, Half>>
    /\ out.px[<<0, 1, 1>>] = <<Zero, One>>

\* C12: constructing a solver and calling solve leave the caller's image and
\* reference matrix unchanged element for element, and the returned map is a
\* newly allocated array sharing no memory with the image (as passed or as
\* unrolled), so a later write to the map does not change the image either.
C12_InputsUntouched ==
    /\ [][img' = img /\ ref' = ref]_vars
    /\ [](pc \in { "done", "written" } =>
            storage.out \notin { "none", storage.mixed_img, storage.ref_matrix, storage.Y })

C12_Witness ==
    /\ pc = "written" /\ solver = "FCLSU" /\ ref = E0
    /\ img = PatternImage(<<2, 2>>, 0)
    /\ storage.Y = storage.mixed_img
    /\ storage.out = "zeros"
    /\ out.px[<<1, 0>>][1] = Written
    /\ X[3][1] = Written
    /\ Y = unroll_image(img)

\* Each pass of the loop writes the slot of its own pixel only, and what it
\* writes is computed from that pixel's column of Y and from E
OwnSlotOnly ==
    [][(pc = "loop" /\ idx' = idx + 1) =>
          /\ \A k \in 1..Len(X) : k # idx + 1 => X'[k] = X[k]
          /\ X'[idx + 1] \in PixelSolutions(solver, E, Y.cols[idx + 1], rnd)]_vars

SameAt(s) == prev.img.px[s] = img.px[s]
SameExtremes == ImageMin(prev.img) = ImageMin(img) /\ ImageMax(prev.img) = ImageMax(img)

\* C13 as stated: for both solvers the vector returned for a pixel is determined
\* by that pixel's band vector in the caller's image and by E alone (two images
\* that agree on a pixel give the same vector for it), and each pass of the
\* loop writes its own pixel's slot only.
C13_PixelIndependence ==
    /\ OwnSlotOnly
    /\ []((pc = "done" /\ prev # NoRun) =>
            \A s \in Indices(img.dims) : SameAt(s) => out.px[s] = prev.out.px[s])

\* C13 amended: that holds of FCLSU; the vector LeastSquares returns for a pixel
\* is determined by the pixel's band vector, by E and by the minimum and the
\* maximum of the whole image (two images that agree on a pixel and have the
\* same minimum and maximum give the same vector for it).
C13_IndependenceUpToExtremes ==
    /\ OwnSlotOnly
    /\ []((pc = "done" /\ prev # NoRun /\ (solver = "LeastSquares" => SameExtremes)) =>
            \A s \in Indices(img.dims) : SameAt(s) => out.px[s] = prev.out.px[s])

C13_Witness ==
    /\ pc = "done" /\ solver = "LeastSquares" /\ ref = E0
    /\ prev.img.dims = <<1, 2>>
    /\ prev.img.px[<<0, 0>>] = Palette[1] /\ prev.img.px[<<0, 1>>] = Palette[2]
    /\ img.px[<<0, 0>>] = Palette[1] /\ img.px[<<0, 1>>] = Palette[4]
    /\ SameExtremes
    /\ out.px[<<0, 0>>] = <<Rat(3, 10), Rat(7, 10)>>
    /\ prev.out.px[<<0, 0>>] = out.px[<<0, 0>>]
    /\ prev.out.px[<<0, 1>>] # out.px[<<0, 1>>]

\* ------------------------------------------------- reference-matrix builder
RECURSIVE SortSet(_)
SortSet(S) == IF S = {} THEN <<>>
              ELSE LET m == CHOOSE x \in S : \A y \in S : x <= y
                   IN <<m>> \o SortSet(S \ {m})

\* FPRefMatrix.__init__, line 12:
\* sorted(set([bins[0] for bins in w_bins] + [w_bins[-1][1]]))
sorted_bin_edges(wb) ==
    SortSet({ wb[k][1] : k \in 1..Len(wb) } \cup { wb[Len(wb)][2] })

\* The bin groupby_bins(fp_em["w"], self.sbins) puts wavelength w in: it cuts as
\* pandas.cut does with its defaults (right=True, include_lowest=False), so bin k
\* is (edge_k, edge_k+1]; 0 stands for the missing code of a sample in no bin.
cut(w, edges) ==
    IF \E k \in 1..(Len(edges) - 1) : edges[k] < w /\ w <= edges[k + 1]
    THEN CHOOSE k \in 1..(Len(edges) - 1) : edges[k] < w /\ w <= edges[k + 1]
    ELSE 0

RECURSIVE SumOver(_, _)
SumOver(em, W) == IF W = {} THEN Zero
                  ELSE LET w == CHOOSE x \in W : TRUE
                       IN Add(em[w], SumOver(em, W \ {w}))

\* groupby_bins(...).sum() of one spectrum: a bin without samples is missing (NaN)
bin_spectrum(em, edges) ==
    [k \in 1..(Len(edges) - 1) |->
        IF { w \in DOMAIN em : cut(w, edges) = k } = {} THEN NaN
        ELSE SumOver(em, { w \in DOMAIN em : cut(w, edges) = k })]

\* fp_em.fillna(num)
fillna(em, num) == [k \in 1..Len(em) |-> IF IsNaN(em[k]) THEN num ELSE em[k]]

\* (fp_em - fp_em.min()) / (fp_em.max() - fp_em.min())
normalize_spectrum(em) ==
    [k \in 1..Len(em) |-> Div(Sub(em[k], MinSeq(em)), Sub(MaxSeq(em), MinSeq(em)))]

\* np.stack([fp_em.values ...], axis=1): one row per bin, one column per fluorophore
stack(ems) == [k \in 1..Len(ems[1]) |-> [f \in 1..Len(ems) |-> ems[f][k]]]

Wavelengths == { 400 + 50 * k : k \in 0..MaxSample }
Spectra == UNION { [D -> 1..MaxIntensity] : D \in (SUBSET Wavelengths) \ { {} } }
BinChoices == { << <<400, 500>>, <<500, 600>> >>,
                << <<450, 550>> >>,
                << <<400, 500>>, <<500, 600>>, <<600, 700>> >> }

RefInit ==
    /\ fpbase \in [1..1 -> Spectra] \cup [1..2 -> Spectra]
    /\ w_bins \in BinChoices
    /\ n_fp = 0 /\ p_bins = 0 /\ sbins = <<>>
    /\ fp_em_list = <<>> /\ codes = <<>> /\ rpc = "new" /\ matrix = <<>>
    /\ SolverIdle /\ MetricsIdle

\* FPRefMatrix.__init__ (lines 8-15)
FPRefMatrix_init ==
    /\ rpc = "new"
    /\ n_fp' = Len(fpbase)
    /\ p_bins' = Len(w_bins)
    /\ sbins' = sorted_bin_edges(w_bins)
    /\ rpc' = "constructed"
    /\ UNCHANGED <<fpbase, w_bins, fp_em_list, codes, matrix>>
    /\ UNCHANGED <<solverVars, metricVars>>

\* create, lines 42-51: the spectra as DataArrays over their wavelengths
create_fetch ==
    /\ rpc = "constructed"
    /\ fp_em_list' = [f \in 1..n_fp |-> [w \in DOMAIN fpbase[f] |-> Num(fpbase[f][w])]]
    /\ rpc' = "fetched"
    /\ UNCHANGED <<fpbase, w_bins, n_fp, p_bins, sbins, codes, matrix>>
    /\ UNCHANGED <<solverVars, metricVars>>

\* create, line 52: self.fp_em_list = self._bin_spectra()
create_bin_spectra ==
    /\ rpc = "fetched"
    /\ codes' = [f \in 1..n_fp |-> [w \in DOMAIN fp_em_list[f] |-> cut(w, sbins)]]
    /\ fp_em_list' = [f \in 1..n_fp |-> bin_spectrum(fp_em_list[f], sbins)]
    /\ rpc' = "binned"
    /\ UNCHANGED <<fpbase, w_bins, n_fp, p_bins, sbins, matrix>>
    /\ UNCHANGED <<solverVars, metricVars>>

\* create, line 53: self.fp_em_list = self._fill_NaNs()
create_fill_NaNs ==
    /\ rpc = "binned"
    /\ fp_em_list' = [f \in 1..n_fp |-> fillna(fp_em_list[f], Zero)]
    /\ rpc' = "filled"
    /\ UNCHANGED <<fpbase, w_bins, n_fp, p_bins, sbins, codes, matrix>>
    /\ UNCHANGED <<solverVars, metricVars>>

\* create, line 54: self.fp_em_list = self._normalize(); nothing is raised
\* when a spectrum is constant: 0/0 is NaN
create_normalize ==
    /\ rpc = "filled"
    /\ fp_em_list' = [f \in 1..n_fp |-> normalize_spectrum(fp_em_list[f])]
    /\ rpc' = "normalized"
    /\ UNCHANGED <<fpbase, w_bins, n_fp, p_bins, sbins, codes, matrix>>
    /\ UNCHANGED <<solverVars, metricVars>>

\* create, lines 55-57: the stacked matrix is returned
create_return ==
    /\ rpc = "normalized"
    /\ matrix' = stack(fp_em_list)
    /\ rpc' = "done"
    /\ UNCHANGED <<fpbase, w_bins, n_fp, p_bins, sbins, fp_em_list, codes>>
    /\ UNCHANGED <<solverVars, metricVars>>

RefNext == FPRefMatrix_init \/ create_fetch \/ create_bin_spectra \/ create_fill_NaNs
           \/ create_normalize \/ create_return
SpecRef == RefInit /\ [][RefNext]_vars

\* ----------------------------------------------------------- builder claims
RawSum(f, k) ==
    SumOver([w \in DOMAIN fpbase[f] |-> Num(fpbase[f][w])],
            { w \in DOMAIN fpbase[f] : sbins[k] <= w /\ w < sbins[k + 1] })

\* C6: every raw sample is summed into the bin whose half-open interval
\* [edge_k, edge_k+1) holds its wavelength, a sample on a lower edge going to the
\* bin that starts there, and no sample inside the edge range is dropped.
C6_HalfOpenBins ==
    rpc = "binned" =>
        \A f \in 1..n_fp :
            /\ \A w \in DOMAIN fpbase[f] : \A k \in 1..(Len(sbins) - 1) :
                 (sbins[k] <= w /\ w < sbins[k + 1]) => codes[f][w] = k
            /\ \A k \in 1..(Len(sbins) - 1) :
                 ~IsNaN(fp_em_list[f][k]) => fp_em_list[f][k] = RawSum(f, k)

Constant(em) == MinSeq(em) = MaxSeq(em)

\* C7: when a binned and zero-filled spectrum is constant the build fails (no
\* normalisation by the zero range takes place and no matrix is returned), and
\* a returned matrix has no non-finite entry.
C7_ConstantSpectrumFails ==
    /\ (rpc \in {"normalized", "done"}) =>
          \A f \in 1..n_fp :
              ~Constant(fillna(bin_spectrum([w \in DOMAIN fpbase[f] |-> Num(fpbase[f][w])], sbins), Zero))
    /\ rpc = "done" => MatFinite(matrix)

\* ------------------------------------------------------------------ arrays
\* An array is [shape, data]: data holds the elements in C order.  A scalar is
\* the array of shape <<>>.
Arr(shape, data) == [shape |-> shape, data |-> data]
Scalar(x) == Arr(<<>>, <<x>>)
Size(A) == Prod(A.shape)

\* numpy broadcasting: shapes are aligned at their last dimension and padded
\* with 1s; two dimensions fit when they are equal or one of them is 1.
Pad(sh, r) == [j \in 1..r |-> IF j <= r - Len(sh) THEN 1 ELSE sh[j - (r - Len(sh))]]
MaxLen(s1, s2) == IF Len(s1) >= Len(s2) THEN Len(s1) ELSE Len(s2)
Broadcastable(s1, s2) ==
    \A j \in 1..MaxLen(s1, s2) :
        \/ Pad(s1, MaxLen(s1, s2))[j] = Pad(s2, MaxLen(s1, s2))[j]
        \/ Pad(s1, MaxLen(s1, s2))[j] = 1
        \/ Pad(s2, MaxLen(s1, s2))[j] = 1
BroadcastShape(s1, s2) ==
    [j \in 1..MaxLen(s1, s2) |->
        IF Pad(s1, MaxLen(s1, s2))[j] = 1 THEN Pad(s2, MaxLen(s1, s2))[j]
        ELSE Pad(s1, MaxLen(s1, s2))[j]]

\* The element of A that index t of a broadcast result of rank r reads
Pick(A, t, r) ==
    A.data[Ravel([j \in 1..Len(A.shape) |->
                    IF A.shape[j] = 1 THEN 0 ELSE t[j + (r - Len(A.shape))]],
                 A.shape) + 1]

\* An elementwise binary operation on two broadcastable arrays (arrays of one
\* shape and an array with a scalar are the two cases that need no index work)
Map2Values(Op(_, _), A, B) ==
    IF A.shape = B.shape
    THEN Arr(A.shape, [k \in 1..Len(A.data) |-> Op(A.data[k], B.data[k])])
    ELSE IF B.shape = <<>>
    THEN Arr(A.shape, [k \in 1..Len(A.data) |-> Op(A.data[k], B.data[1])])
    ELSE Bind(BroadcastShape(A.shape, B.shape), LAMBDA rs :
           Arr(rs, [k \in 1..Prod(rs) |->
                      Op(Pick(A, Unravel(k - 1, rs), Len(rs)),
                         Pick(B, Unravel(k - 1, rs), Len(rs)))]))
Map2(Op(_, _), A, B) == Bind2(A, B, LAMBDA U, V : Map2Values(Op, U, V))

Map1(Op(_), A) == Bind(A, LAMBDA U : Arr(U.shape, [k \in 1..Len(U.data) |-> Op(U.data[k])]))

Square(x) == Mul(x, x)
ArrSum(A) == SumSeq(A.data)
\* np.mean of an empty array is NaN (with a warning)
ArrMean(A) == Bind(A, LAMBDA U : IF Size(U) = 0 THEN NaN ELSE Div(ArrSum(U), Num(Size(U))))
ArrMax(A) == MaxSeq(A.data)
ArrMin(A) == MinSeq(A.data)
\* A[i, ...] for a 0-based i
Slice(A, i) ==
    Arr(Tail(A.shape),
        SubSeq(A.data, i * Prod(Tail(A.shape)) + 1, (i + 1) * Prod(Tail(A.shape))))

BroadcastError == "ValueError: operands could not be broadcast together"
ZeroSizeError == "ValueError: zero-size array to reduction operation"
IndexError == "IndexError"
Ok(v) == [err |-> "none", val |-> v]
Fail(e) == [err |-> e, val |-> Zero]

\* ------------------------------------------------------------- logarithms
\* 10 * (log10(a) - log10(b)) is kept exactly: "fin" with arg = a/b stands for
\* 10 * log10(arg) / root, and "pinf", "ninf", "nan" are the non-finite results
\* (log10(0) = -inf, the logarithm of a negative number or of NaN is NaN).
LogClass(a) == IF IsNaN(a) \/ a[1] < 0 THEN "nan"
               ELSE IF a = Zero THEN "ninf"
               ELSE IF a = PInf THEN "pinf" ELSE "fin"
LogVal(k, arg, root) == [k |-> k, arg |-> arg, root |-> root]
LogNaN == LogVal("nan", Zero, 1)
LogPInf == LogVal("pinf", Zero, 1)
LogNInf == LogVal("ninf", Zero, 1)
Log10DiffValues(a, b) ==
    IF LogClass(a) = "nan" \/ LogClass(b) = "nan"
       \/ (LogClass(a) = LogClass(b) /\ LogClass(a) # "fin")
    THEN LogNaN
    ELSE IF LogClass(a) = "fin" /\ LogClass(b) = "fin" THEN LogVal("fin", Div(a, b), 1)
    ELSE IF LogClass(a) = "pinf" \/ LogClass(b) = "ninf" THEN LogPInf
    ELSE LogNInf
Log10Diff(a, b) == Bind2(a, b, Log10DiffValues)

RECURSIVE ProdArgs(_)
ProdArgs(l) == IF l = <<>> THEN One ELSE Mul(l[1].arg, ProdArgs(Tail(l)))

\* np.mean of a list of such values
LogMean(l) ==
    IF l = <<>> \/ (\E i \in 1..Len(l) : l[i].k = "nan")
       \/ ((\E i \in 1..Len(l) : l[i].k = "pinf") /\ (\E i \in 1..Len(l) : l[i].k = "ninf"))
    THEN LogNaN
    ELSE IF \E i \in 1..Len(l) : l[i].k = "pinf" THEN LogPInf
    ELSE IF \E i \in 1..Len(l) : l[i].k = "ninf" THEN LogNInf
    ELSE LogVal("fin", ProdArgs(l), Len(l))

\* ----------------------------------------------------------------- metrics
\* PixelWiseMSE (lines 3-4): (gt - pred)**2; the subtraction broadcasts
PixelWiseMSE(g, q) ==
    IF ~Broadcastable(g.shape, q.shape) THEN Fail(BroadcastError)
    ELSE Ok(Map1(Square, Map2(Sub, g, q)))

\* PixelWiseMAE (lines 6-7): abs(gt - pred)
PixelWiseMAE(g, q) ==
    IF ~Broadcastable(g.shape, q.shape) THEN Fail(BroadcastError)
    ELSE Ok(Map1(AbsN, Map2(Sub, g, q)))

\* PSNR (lines 9-16); range_ is [given, v], given = FALSE standing for None
NoRange == [given |-> FALSE, v |-> Zero]
Range(v) == [given |-> TRUE, v |-> v]
PSNR(g, q, range_) ==
    IF ~range_.given /\ Size(g) = 0 THEN Fail(ZeroSizeError)
    ELSE CHOOSE r \in {
           IF mse.err # "none" THEN mse
           ELSE Ok(Log10Diff(Square(IF range_.given THEN range_.v
                                    ELSE Sub(ArrMax(g), ArrMin(g))),
                             ArrMean(mse.val))) :
           mse \in { PixelWiseMSE(g, q) } } : TRUE

\* (a variant that does not centre x on its mean)
fix_range_uncentred(g, x) ==
    IF ~Broadcastable(g.shape, x.shape) THEN Fail(BroadcastError)
    ELSE Bind(Map2(Sub, g, Scalar(ArrMean(g))), LAMBDA gt_ :
         Bind(Div(ArrSum(Map2(Mul, gt_, x)), ArrSum(Map2(Mul, x, x))), LAMBDA a :
           Ok(Map2(Mul, Arr([j \in 1..MaxLen(g.shape, x.shape) |-> 1], <<a>>), x))))

\* fix_range (lines 32-42): x is centred on its mean and scaled by
\* a = sum(gt_ * x_) / sum(x_ * x_), both sums kept with keepdims=True
fix_range(g, x) ==
    IF ~Broadcastable(g.shape, x.shape) THEN Fail(BroadcastError)
    ELSE Bind(Map2(Sub, x, Scalar(ArrMean(x))), LAMBDA x_ :
         Bind(Map2(Sub, g, Scalar(ArrMean(g))), LAMBDA gt_ :
         Bind(Div(ArrSum(Map2(Mul, gt_, x_)), ArrSum(Map2(Mul, x_, x_))), LAMBDA a :
           Ok(Map2(Mul, Arr([j \in 1..MaxLen(g.shape, x.shape) |-> 1], <<a>>), x_)))))

\* gt.std() is a square root and in general irrational.  Every value the code
\* divides by it is kept here as its rational multiple of 1/std: dividing by a
\* nonzero std leaves the stored number as it is, and dividing by a zero std is
\* the float division by zero.  fix_range is linear in gt and PSNR takes the
\* difference of the logarithms of two squares, so the common factor 1/std^2
\* cancels and the result is exact.
Variance(g) == ArrMean(Map1(Square, Map2(Sub, g, Scalar(ArrMean(g)))))
OverStd(x, var) == IF var = Zero THEN Div(x, Zero) ELSE x

\* RangeInvariantPSNR (lines 18-30)
RangeInvariantPSNR(g, q) ==
    IF Size(g) = 0 THEN Fail(ZeroSizeError)
    ELSE Bind(Variance(g), LAMBDA var :
         Bind(ArrMean(g), LAMBDA mean :
         Bind(OverStd(Sub(ArrMax(g), ArrMin(g)), var), LAMBDA std_range :
         Bind(Arr(g.shape, [k \in 1..Len(g.data) |-> OverStd(Sub(g.data[k], mean), var)]),
              LAMBDA std_gt :
         Bind(fix_range(std_gt, q), LAMBDA scaled_pred :
           IF scaled_pred.err # "none" THEN scaled_pred
           ELSE PSNR(std_gt, scaled_pred.val, Range(std_range)))))))

\* SpectralPSNR (lines 44-59): the loop runs over gt.shape[0] and indexes both
\* arrays with i; the first exception ends it
RECURSIVE SpectralLoop(_, _, _, _, _)
SpectralLoop(g, q, range_inv, i, acc) ==
    IF i = g.shape[1] THEN Ok(LogMean(acc))
    ELSE IF Len(q.shape) = 0 \/ i >= q.shape[1] THEN Fail(IndexError)
    ELSE Bind(IF range_inv THEN RangeInvariantPSNR(Slice(g, i), Slice(q, i))
              ELSE PSNR(Slice(g, i), Slice(q, i), NoRange), LAMBDA r :
           IF r.err # "none" THEN r
           ELSE SpectralLoop(g, q, range_inv, i + 1, Append(acc, r.val)))

SpectralPSNR(g, q, range_inv) ==
    IF Len(g.shape) = 0 THEN Fail(IndexError)
    ELSE SpectralLoop(g, q, range_inv, 0, <<>>)

\* -------------------------------------------------------- metrics: state
ArrayShapes ==
    { <<>>, <<0>> } \cup { <<n>> : n \in 1..MaxElems }
    \cup { sh \in [1..2 -> 1..MaxElems] : Prod(sh) <= MaxElems }
Arrays == UNION { { Arr(sh, d) : d \in [1..Prod(sh) -> { Num(v) : v \in 0..MaxValue }] } :
                  sh \in ArrayShapes }

\* Any two arrays, of equal or different shapes
MetricsInit ==
    /\ gt \in Arrays
    /\ pred \in Arrays
    /\ pred0 = pred
    /\ call = "none" /\ res = Fail("none")
    /\ SolverIdle /\ RefIdle

Returned(name, r) ==
    /\ call' = name
    /\ res' = r
    /\ UNCHANGED <<gt, pred, pred0>>
    /\ UNCHANGED <<solverVars, refVars>>

call_PixelWiseMSE == call = "none" /\ Returned("PixelWiseMSE", PixelWiseMSE(gt, pred))
call_PixelWiseMAE == call = "none" /\ Returned("PixelWiseMAE", PixelWiseMAE(gt, pred))
call_PSNR == call = "none" /\ Returned("PSNR", PSNR(gt, pred, NoRange))
call_RangeInvariantPSNR ==
    call = "none" /\ Returned("RangeInvariantPSNR", RangeInvariantPSNR(gt, pred))
call_SpectralPSNR ==
    /\ call = "none"
    /\ \E range_inv \in BOOLEAN :
         Returned(IF range_inv THEN "SpectralPSNR" ELSE "SpectralPSNR(range_inv=False)",
                  SpectralPSNR(gt, pred, range_inv))

MetricsNext == call_PixelWiseMSE \/ call_PixelWiseMAE \/ call_PSNR
               \/ call_RangeInvariantPSNR \/ call_SpectralPSNR
SpecMetrics == MetricsInit /\ [][MetricsNext]_vars

\* Two one-axis arrays of one length (the metric reduces over every element,
\* so the axes play no part), and a caller that passes k * pred + c instead of
\* pred
Rescalings == { [k |-> Rat(1, 2), c |-> Num(-1)], [k |-> Num(3), c |-> Num(2)] }
AffineInit ==
    /\ gt \in { a \in Arrays : Len(a.shape) = 1 }
    /\ pred \in { a \in Arrays : a.shape = gt.shape }
    /\ pred0 = pred
    /\ call = "none" /\ res = Fail("none")
    /\ SolverIdle /\ RefIdle

rescale_pred ==
    /\ call = "none" /\ pred = pred0
    /\ \E f \in Rescalings :
         pred' = Arr(pred.shape, [i \in 1..Len(pred.data) |-> Add(Mul(f.k, pred.data[i]), f.c)])
    /\ UNCHANGED <<gt, pred0, call, res>>
    /\ UNCHANGED <<solverVars, refVars>>

AffineNext == rescale_pred \/ call_RangeInvariantPSNR
SpecAffine == AffineInit /\ [][AffineNext]_vars

\* ----------------------------------------------------------- metric claims
ShapeChecked(names) ==
    (call \in names /\ gt.shape # pred.shape) => res.err = BroadcastError

\* C8: PixelWiseMSE, PixelWiseMAE, PSNR and SpectralPSNR each fail with a
\* shape-mismatch error whenever gt.shape # pred.shape, broadcast-compatible
\* shapes and a pred with more leading channels than gt included.
C8_ShapeMismatchFails ==
    ShapeChecked({ "PixelWiseMSE", "PixelWiseMAE", "PSNR", "SpectralPSNR",
                   "SpectralPSNR(range_inv=False)" })

\* C9: PixelWiseMSE(gt, gt) is 0 at every element and PSNR(gt, gt) with the
\* default range is +infinity, also for a constant gt.
C9_SelfComparison ==
    gt = pred =>
        /\ call = "PixelWiseMSE" =>
              /\ res.err = "none"
              /\ \A i \in 1..Len(res.val.data) : res.val.data[i] = Zero
        /\ (call = "PSNR" /\ Size(gt) > 0) => (res.err = "none" /\ res.val = LogPInf)

NonConstant(A) == Size(A) > 0 /\ ArrMin(A) # ArrMax(A)

\* C10: for gt and a non-constant pred of the same shape, k > 0 and any c,
\* RangeInvariantPSNR(gt, k * pred + c) equals RangeInvariantPSNR(gt, pred).
C10_AffineInvariance ==
    (call = "RangeInvariantPSNR" /\ NonConstant(pred0)) =>
        res = RangeInvariantPSNR(gt, pred0)

C10_Witness ==
    /\ call = "RangeInvariantPSNR"
    /\ gt = Arr(<<3>>, <<Zero, One, One>>)
    /\ pred0 = Arr(<<3>>, <<Zero, Zero, One>>)
    /\ pred = Arr(<<3>>, <<Num(-1), Num(-1), Rat(-1, 2)>>)
    /\ res.err = "none" /\ res.val.k = "fin"

====
